---- MODULE Spec2Model ----
(***************************************************************************)
(* Model of the legal-document splitter of awsome-rag                      *)
(* (app/data_indexing/file/document_splitter): the Chinese numeral         *)
(* converter (utils.py) and the structural splitter (legal_splitter.py).   *)
(*                                                                         *)
(* A string is a sequence of characters; a character is written as a TLA+  *)
(* string that names it:                                                   *)
(*   "ling" "yi1" "er" "san" "si" "wu" "liu" "qi" "ba" "jiu"   零 一 .. 九  *)
(*   "shi" "bai" "qian" "wan" "yi4"                            十 百 千 万 亿 *)
(*   "di" "bian" "zhang" "jie" "tiao"                          第 编 章 节 条 *)
(*   ":"  the ASCII colon        "LF"  the line feed                       *)
(*   " "  the ASCII space        "U3000" the full-width space              *)
(*   "UA0" the no-break space                                              *)
(*   "U200B" "U200C" "U200D" "UFEFF"  the zero-width characters            *)
(*   "a" "b"  two characters that are none of the above (a Latin letter,   *)
(*            a Chinese character of ordinary text)                        *)
(* Python's None is the empty tuple, an integer n of an optional field is  *)
(* the one-tuple <<n>>.                                                    *)
(***************************************************************************)
EXTENDS Integers, Sequences, FiniteSets, TLC

None == << >>
Some(n) == << n >>

(***************************************************************************)
(* utils.py                                                                *)
(***************************************************************************)
CHINESE_NUMBER ==
    << "ling", "yi1", "er", "san", "si", "wu", "liu", "qi", "ba", "jiu",
       "shi", "bai", "qian", "wan", "yi4" >>

NUMBER == << 0, 1, 2, 3, 4, 5, 6, 7, 8, 9, 10, 100, 1000, 10000, 100000000 >>

Range(f) == { f[k] : k \in DOMAIN f }

CHINESE_NUM_MAP ==
    [ c \in Range(CHINESE_NUMBER) |->
        NUMBER[CHOOSE k \in DOMAIN CHINESE_NUMBER : CHINESE_NUMBER[k] = c] ]

\* is_chinese_number with a slip: a validation of the form is added, a
\* unit glyph right after a unit glyph is refused
is_chinese_number_strict(s) ==
    /\ \A k \in DOMAIN s : s[k] \in DOMAIN CHINESE_NUM_MAP
    /\ \A k \in DOMAIN s :
         (k > 1 /\ CHINESE_NUM_MAP[s[k]] >= 10) => CHINESE_NUM_MAP[s[k - 1]] < 10

\* all(char in CHINESE_NUM_MAP for char in s): true of the empty string
is_chinese_number(s) == \A k \in DOMAIN s : s[k] \in DOMAIN CHINESE_NUM_MAP

\* values = [CHINESE_NUM_MAP[char] for char in s]
ValuesOf(s) == [ k \in DOMAIN s |-> CHINESE_NUM_MAP[s[k]] ]

\* ConvBranch with a slip: skip_next is not honoured
ConvBranchNoSkip(values, index, skip_next) ==
    LET current == values[index + 1] IN
    IF current >= 10
    THEN IF index = 0 THEN "unit_first"
         ELSE IF values[index] < 10 THEN "unit_after_digit"
              ELSE "unit_after_unit"
    ELSE IF index + 1 < Len(values) /\ values[index + 2] >= 10
         THEN "digit_times_unit"
         ELSE "digit"

\* The branch one iteration of the while loop takes; index is 0-based as in
\* the source, values[index] of the source is values[index + 1] here.
ConvBranch(values, index, skip_next) ==
    LET current == values[index + 1] IN
    IF skip_next THEN "skip"
    ELSE IF current >= 10
         THEN IF index = 0 THEN "unit_first"
              ELSE IF values[index] < 10 THEN "unit_after_digit"
                   ELSE "unit_after_unit"
         ELSE IF index + 1 < Len(values) /\ values[index + 2] >= 10
              THEN "digit_times_unit"
              ELSE "digit"

\* ConvAdd with a slip: a unit after a unit adds nothing
ConvAddDropsUnit(values, index, skip_next) ==
    LET current == values[index + 1]
        br == ConvBranch(values, index, skip_next) IN
    CASE br = "skip" -> 0
      [] br = "unit_first" -> current
      [] br = "unit_after_digit" -> values[index] * current
      [] br = "unit_after_unit" -> 0
      [] br = "digit_times_unit" -> current * values[index + 2]
      [] br = "digit" -> current

\* What one iteration adds to result
ConvAdd(values, index, skip_next) ==
    LET current == values[index + 1]
        br == ConvBranch(values, index, skip_next) IN
    CASE br = "skip" -> 0
      [] br = "unit_first" -> current
      [] br = "unit_after_digit" -> values[index] * current
      [] br = "unit_after_unit" -> current
      [] br = "digit_times_unit" -> current * values[index + 2]
      [] br = "digit" -> current

\* ConvStep with a slip: the unit a digit was multiplied with is not skipped
ConvStepNoSkip(values, st) ==
    [ result |-> st.result + ConvAdd(values, st.index, st.skip_next),
      index |-> st.index + 1,
      skip_next |-> FALSE ]

\* One iteration of the while loop on the loop state [result, index, skip_next]
ConvStep(values, st) ==
    [ result |-> st.result + ConvAdd(values, st.index, st.skip_next),
      index |-> st.index + 1,
      skip_next |-> ConvBranch(values, st.index, st.skip_next) = "digit_times_unit" ]

RECURSIVE ConvLoop(_, _)
ConvLoop(values, st) ==
    IF st.index < Len(values) THEN ConvLoop(values, ConvStep(values, st))
    ELSE st.result

ConvInit == [ result |-> 0, index |-> 0, skip_next |-> FALSE ]

\* convert_chinese_to_number with a slip: the table holds the ten digits
\* only, a numeral with a unit glyph is rejected
convert_without_units(s) ==
    IF s = << >> \/ ~is_chinese_number(s)
         \/ \E k \in DOMAIN s : CHINESE_NUM_MAP[s[k]] >= 10
    THEN None
    ELSE Some(ConvLoop(ValuesOf(s), ConvInit))

\* convert_chinese_to_number: None for an empty or non-numeral string
convert_chinese_to_number(s) ==
    IF s = << >> \/ ~is_chinese_number(s) THEN None
    ELSE Some(ConvLoop(ValuesOf(s), ConvInit))

(***************************************************************************)
(* Python string operations used by legal_splitter.py                      *)
(***************************************************************************)
\* the characters of the model that str.strip() strips and \s matches
Whitespace == { " ", "U3000", "UA0", "LF" }

RECURSIVE RunLen(_, _, _)
\* the length of the longest run of characters of cs in s that starts at
\* position from (1-based)
RunLen(s, from, cs) ==
    IF from <= Len(s) /\ s[from] \in cs THEN 1 + RunLen(s, from + 1, cs) ELSE 0

RECURSIVE TrailLen(_, _)
TrailLen(s, cs) ==
    IF s # << >> /\ s[Len(s)] \in cs
    THEN 1 + TrailLen(SubSeq(s, 1, Len(s) - 1), cs) ELSE 0

\* str.strip()
strip(s) ==
    LET lead == RunLen(s, 1, Whitespace) IN
    IF lead = Len(s) THEN << >>
    ELSE SubSeq(s, lead + 1, Len(s) - TrailLen(s, Whitespace))

startswith(s, prefix) ==
    Len(s) >= Len(prefix) /\ SubSeq(s, 1, Len(prefix)) = prefix

endswith(s, suffix) ==
    Len(s) >= Len(suffix) /\ SubSeq(s, Len(s) - Len(suffix) + 1, Len(s)) = suffix

RECURSIVE splitlines(_)
\* str.splitlines(): a final line feed opens no further line
splitlines(text) ==
    IF text = << >> THEN << >>
    ELSE LET k == RunLen(text, 1, Range(text) \ { "LF" }) IN
         IF k = Len(text) THEN << text >>
         ELSE << SubSeq(text, 1, k) >> \o splitlines(SubSeq(text, k + 2, Len(text)))

RECURSIVE join(_, _)
\* sep.join(parts)
join(sep, parts) ==
    IF parts = << >> THEN << >>
    ELSE IF Len(parts) = 1 THEN parts[1]
    ELSE parts[1] \o sep \o join(sep, Tail(parts))

(***************************************************************************)
(* legal_splitter.py: patterns and predicates                              *)
(***************************************************************************)
NUM_STR ==
    { "ling", "yi1", "er", "san", "si", "wu", "liu", "qi", "ba", "jiu",
      "shi", "bai", "qian" }

\* A pattern ^<lead>*di([NUM_STR]+)<mark>... is the pair of the characters
\* its leading group admits and the character that follows the numeral.
PART_REGEX == [ lead |-> Whitespace, mark |-> "bian" ]
CHAPTER_REGEX == [ lead |-> Whitespace, mark |-> "zhang" ]
SECTION_REGEX == [ lead |-> Whitespace, mark |-> "jie" ]
ARTICLE_REGEX == [ lead |-> Whitespace \cup { "U3000", "UA0" }, mark |-> "tiao" ]

ZERO_WIDTH_PATTERN == { "U200B", "U200C", "U200D", "UFEFF" }

\* RegexMatch with a slip: the pattern reads ...([NUM_STR]+).*<mark>, the
\* mark may stand anywhere after the numeral
RegexMatchLoose(re, line) ==
    LET k == RunLen(line, 1, re.lead)
        m == RunLen(line, k + 2, NUM_STR)
        ok == /\ Len(line) >= k + m + 2
              /\ line[k + 1] = "di"
              /\ m >= 1
              /\ \E j \in k + m + 2 .. Len(line) : line[j] = re.mark
    IN [ matched |-> ok, group |-> IF ok THEN SubSeq(line, k + 2, k + m + 1) ELSE << >> ]

\* pattern.match(line): the leading run, then di, then the longest run of
\* numeral glyphs (no shorter run can be followed by the mark, which is no
\* numeral glyph), then the mark; the rest of the line is free (.*).
\* The captured numeral is group, empty when there is no match.
RegexMatch(re, line) ==
    LET k == RunLen(line, 1, re.lead)
        m == RunLen(line, k + 2, NUM_STR)
        ok == /\ Len(line) >= k + m + 2
              /\ line[k + 1] = "di"
              /\ m >= 1
              /\ line[k + m + 2] = re.mark
    IN [ matched |-> ok, group |-> IF ok THEN SubSeq(line, k + 2, k + m + 1) ELSE << >> ]

all_patterns == << PART_REGEX, CHAPTER_REGEX, SECTION_REGEX, ARTICLE_REGEX >>

none_match(text, patterns) ==
    \A k \in DOMAIN patterns : ~RegexMatch(patterns[k], text).matched

IsNonBlank(line) == strip(line) # << >>

\* has_article_pattern with a slip: the pattern is matched against the text,
\* not against each line, so only the first non-blank line counts
has_article_first_line(text) ==
    LET lines == SelectSeq(splitlines(text), IsNonBlank) IN
    lines # << >> /\ RegexMatch(ARTICLE_REGEX, lines[1]).matched

\* has_article_pattern with a slip: any of the four patterns counts
has_any_pattern(text) ==
    LET lines == SelectSeq(splitlines(text), IsNonBlank) IN
    \E k \in DOMAIN lines : ~none_match(lines[k], all_patterns)

\* has_article_pattern: the patterns are anchored, so search is match
has_article_pattern(text) ==
    LET lines == SelectSeq(splitlines(text), IsNonBlank) IN
    \E k \in DOMAIN lines : RegexMatch(ARTICLE_REGEX, lines[k]).matched

NotZeroWidth(c) == c \notin ZERO_WIDTH_PATTERN

clean_and_check_blank(s) ==
    IF s = << >> \/ strip(s) = << >> THEN TRUE
    ELSE strip(SelectSeq(s, NotZeroWidth)) = << >>

\* lines = [line.strip() for line in text.splitlines() if line.strip()]
StrippedLines(text) ==
    LET kept == SelectSeq(splitlines(text), IsNonBlank) IN
    [ k \in DOMAIN kept |-> strip(kept[k]) ]

INDENT == << "U3000", "U3000" >>

\* if s.startswith(INDENT): s = s[2:]
StripIndent(s) == IF startswith(s, INDENT) THEN SubSeq(s, 3, Len(s)) ELSE s

\* TextNode(text=..., extra_info=...): metadata is a dictionary, empty when
\* no extra_info is given
TextNode(text, extra_info) == [ text |-> text, metadata |-> extra_info ]

NoInfo == [ k \in {} |-> None ]

\* read_without_article_pattern with a slip: the lines are not stripped
read_without_unstripped(text) ==
    LET kept == SelectSeq(splitlines(text), IsNonBlank) IN
    [ k \in DOMAIN kept |-> TextNode(kept[k], NoInfo) ]

\* read_without_article_pattern
read_without_article_pattern(text) ==
    LET lines == StrippedLines(text) IN
    [ k \in DOMAIN lines |-> TextNode(lines[k], NoInfo) ]

(***************************************************************************)
(* The inputs                                                              *)
(***************************************************************************)
\* MaxInput bounds the size of an input: its lines plus its node boundaries
MaxInput == 3

\* The raw lines documents are made of
PartLine == << "di", "yi1", "bian" >>
ChapterLine == << "di", "yi1", "zhang", " ", "b" >>
SectionLine == << "di", "er", "jie" >>
IndentedArticleLine == << "U3000", "U3000", "di", "yi1", "tiao", " ", "b" >>
ArticleLine == << "di", "er", "tiao", "a" >>
ColonArticleLine == << "di", "shi", "er", "tiao", ":" >>
IndentedPlainLine == << "U3000", "U3000", "b" >>
ColonPlainLine == << "a", ":" >>
BlankLine == << " " >>
ZeroWidthLine == << "U200B" >>

Vocabulary ==
    { PartLine, ChapterLine, SectionLine, IndentedArticleLine, ArticleLine,
      ColonArticleLine, IndentedPlainLine, ColonPlainLine, BlankLine,
      ZeroWidthLine }

\* The two node boundaries: the next node is a Document, or it is a node of
\* another class (isinstance(node, Document) is false)
DocBreak == << "DOC" >>
NodeBreak == << "NODE" >>

Items == Vocabulary \cup { DocBreak, NodeBreak }

RECURSIVE BuildNodes(_, _)
\* the nodes a sequence of items stands for; built holds the nodes so far,
\* the last one being the node under construction
BuildNodes(items, built) ==
    IF items = << >> THEN built
    ELSE LET it == Head(items)
             last == built[Len(built)] IN
         IF it = DocBreak
         THEN BuildNodes(Tail(items), Append(built, [ is_document |-> TRUE, raw |-> << >> ]))
         ELSE IF it = NodeBreak
         THEN BuildNodes(Tail(items), Append(built, [ is_document |-> FALSE, raw |-> << >> ]))
         ELSE BuildNodes(Tail(items),
                         [ built EXCEPT ![Len(built)].raw = Append(last.raw, it) ])

\* a node of the input: its class and its text, the lines joined by line feeds
InputNodes(items) ==
    LET built == BuildNodes(items, << [ is_document |-> TRUE, raw |-> << >> ] >>) IN
    [ k \in DOMAIN built |->
        [ is_document |-> built[k].is_document,
          text |-> join(<< "LF" >>, built[k].raw) ] ]


(***************************************************************************)
(* The splitter as a state machine                                         *)
(***************************************************************************)
VARIABLES
    _nodes,       \* LegalSplitter._parse_nodes: the input nodes
    n,            \* the number of nodes the for loop has finished
    result,       \* _parse_nodes' result list
    origin,       \* history: for each unit of result, the node it comes from
                  \* (doc, 1-based), the 0-based index of its first line in
                  \* that node's lines and the number of lines it holds
    pc,           \* "parse", "scan", "consume", "consumed", "done", "raised"
    lines,        \* read_with_article_pattern: the stripped non-blank lines
    a_result,     \* read_with_article_pattern's result list
    a_origin,     \* history: first line and line count of each unit of a_result
    part, chapter, section, article,
    i,            \* the index of the outer while loop
    line,         \* the article line whose continuation is being consumed
    _line,        \* the pieces of the article text
    temp_index, temp_text,
    visits,       \* history: the examinations of lines by
                  \* read_with_article_pattern, each the 0-based index of the
                  \* line and the place in the code that examines it
    \* convert_chinese_to_number, run by itself
    cs,           \* its argument
    cvalues,      \* values
    cst,          \* the loop state [result, index, skip_next]
    cpc,          \* "idle", "check", "loop", "returned"
    cret,         \* the value returned
    cbranches,    \* history: the branches the loop has taken
    \* QueryAPI._query (api/query.py)
    query_text, enable_pre_processing, enable_post_processing,
    processed_query,
    sent_query,   \* the query_text argument of query_service.query
    retrieved,    \* what query_service.query returned
    results,
    pre_error,    \* the exception the first try block caught, "" if none
    post_error,   \* the exception the second try block caught, "" if none
    qpc,          \* the position in _query, in SensitiveWordProcessor.run
                  \* or in QueryRouter.determine_mode; "idle" otherwise
    \* SensitiveWordProcessor.run (sensitive_word_processor.py)
    s_input,      \* history: the argument
    query,
    word,         \* the number of sensitive words the loop has done
    \* QueryRouter.determine_mode (routing.py)
    params, default_mode,
    param_name,   \* the number of parameter names the loop has done
    mode_ret      \* the value returned

splitter_vars ==
    << _nodes, n, result, origin, pc, lines, a_result, a_origin, part, chapter,
       section, article, i, line, _line, temp_index, temp_text, visits >>
conv_vars == << cs, cvalues, cst, cpc, cret, cbranches >>
api_vars ==
    << query_text, enable_pre_processing, enable_post_processing, processed_query,
       sent_query, retrieved, results, pre_error, post_error >>
sensitive_vars == << s_input, query, word >>
router_vars == << params, default_mode, param_name, mode_ret >>
query_vars == << api_vars, sensitive_vars, router_vars, qpc >>
vars == << splitter_vars, conv_vars, query_vars >>

ConvIdle ==
    /\ cs = << >> /\ cvalues = << >> /\ cst = ConvInit
    /\ cpc = "idle" /\ cret = None /\ cbranches = << >>

ApiIdle ==
    /\ query_text = << >> /\ enable_pre_processing = FALSE
    /\ enable_post_processing = FALSE /\ processed_query = << >>
    /\ sent_query = << >> /\ retrieved = << >> /\ results = << >>
    /\ pre_error = "" /\ post_error = ""

SensitiveIdle == s_input = << >> /\ query = << >> /\ word = 0

RouterIdle ==
    /\ params = << >> /\ default_mode = << >> /\ param_name = 0 /\ mode_ret = << >>

QueryIdle == ApiIdle /\ SensitiveIdle /\ RouterIdle /\ qpc = "idle"

Init ==
    /\ \E size \in 0 .. MaxInput : \E items \in [ 1 .. size -> Items ] :
          _nodes = InputNodes(items)
    /\ n = 0 /\ result = << >> /\ origin = << >> /\ pc = "parse"
    /\ lines = << >> /\ a_result = << >> /\ a_origin = << >>
    /\ part = None /\ chapter = None /\ section = None /\ article = None
    /\ i = 0 /\ line = << >> /\ _line = << >> /\ temp_index = 0 /\ temp_text = << >>
    /\ visits = << >>
    /\ ConvIdle
    /\ QueryIdle

read_locals ==
    << lines, a_result, a_origin, part, chapter, section, article, i, line,
       _line, temp_index, temp_text, visits >>
consume_locals == << line, _line, temp_index, temp_text >>

\* for node in _nodes: the loop is over
ParseDone ==
    /\ pc = "parse" /\ n = Len(_nodes)
    /\ pc' = "done"
    /\ UNCHANGED << _nodes, n, result, origin, read_locals, conv_vars, query_vars >>

\* if isinstance(node, Document) is false the node is passed over
SkipNode ==
    /\ pc = "parse" /\ n < Len(_nodes)
    /\ ~_nodes[n + 1].is_document
    /\ n' = n + 1
    /\ UNCHANGED << _nodes, result, origin, pc, read_locals, conv_vars, query_vars >>

\* result.extend(read_without_article_pattern(node))
ReadWithout ==
    /\ pc = "parse" /\ n < Len(_nodes)
    /\ _nodes[n + 1].is_document
    /\ ~has_article_pattern(_nodes[n + 1].text)
    /\ LET got == read_without_article_pattern(_nodes[n + 1].text) IN
       /\ result' = result \o got
       /\ origin' = origin \o
            [ k \in DOMAIN got |-> [ doc |-> n + 1, first |-> k - 1, count |-> 1 ] ]
    /\ n' = n + 1
    /\ UNCHANGED << _nodes, pc, read_locals, conv_vars, query_vars >>

\* read_with_article_pattern(node) is entered: lines 55-63
ReadWithEnter ==
    /\ pc = "parse" /\ n < Len(_nodes)
    /\ _nodes[n + 1].is_document
    /\ has_article_pattern(_nodes[n + 1].text)
    /\ lines' = StrippedLines(_nodes[n + 1].text)
    /\ a_result' = << >> /\ a_origin' = << >>
    /\ part' = None /\ chapter' = None /\ section' = None /\ article' = None
    /\ i' = 0
    /\ visits' = << >>
    /\ pc' = "scan"
    /\ UNCHANGED << _nodes, n, result, origin, consume_locals, conv_vars, query_vars >>

\* ReadWithReturn with a slip: result = ... in place of result.extend(...)
ReadWithReturnOverwrites ==
    /\ pc = "scan" /\ ~(i < Len(lines))
    /\ result' = a_result
    /\ origin' =
         [ k \in DOMAIN a_origin |->
             [ doc |-> n + 1, first |-> a_origin[k].first, count |-> a_origin[k].count ] ]
    /\ n' = n + 1
    /\ pc' = "parse"
    /\ UNCHANGED << _nodes, read_locals, conv_vars, query_vars >>

\* return result (line 115) and result.extend(...) (line 130)
ReadWithReturn ==
    /\ pc = "scan" /\ ~(i < Len(lines))
    /\ result' = result \o a_result
    /\ origin' = origin \o
         [ k \in DOMAIN a_origin |->
             [ doc |-> n + 1, first |-> a_origin[k].first, count |-> a_origin[k].count ] ]
    /\ n' = n + 1
    /\ pc' = "parse"
    /\ UNCHANGED << _nodes, read_locals, conv_vars, query_vars >>

\* extra_info of line 108
ExtraInfo(p, c, s, a, ct) ==
    [ part |-> p, chapter |-> c, section |-> s, article |-> a, content_type |-> ct ]

\* lines 105-113: the unit is appended and the scan moves on from index last
Emit(text, p, c, s, a, ct, last, count) ==
    /\ a_result' = Append(a_result,
                          TextNode(IF text = << >> THEN lines[last + 1] ELSE text,
                                   ExtraInfo(p, c, s, a, ct)))
    /\ a_origin' = Append(a_origin, [ first |-> last + 1 - count, count |-> count ])
    /\ i' = last + 1

Scanning == pc = "scan" /\ i < Len(lines)

\* an examination of lines[idx]: "current" when the outer loop takes it as
\* its line (line 65), "has_more" when line 84 matches the next line against
\* the patterns, "loop_take" when the continuation loop tests and appends it
\* (lines 92-96), "loop_stop" when the test of line 92 fails on it
Visit(idx, at) == [ line |-> idx, at |-> at ]

\* line 84 examines the next line unless endswith(":") or the end of the
\* lines decides before
HasMoreVisits(idx, cur) ==
    IF ~endswith(cur, << ":" >>) /\ idx + 1 < Len(lines)
    THEN << Visit(idx + 1, "has_more") >> ELSE << >>

\* has_more with a slip: the look-ahead at the next line is left out
has_more_colon_only(idx, cur) == endswith(cur, << ":" >>)

\* line 84
has_more(idx, cur) ==
    \/ endswith(cur, << ":" >>)
    \/ (idx + 1 < Len(lines) /\ none_match(lines[idx + 2], all_patterns))

\* lines 66-68
ScanBlank ==
    /\ Scanning
    /\ clean_and_check_blank(lines[i + 1])
    /\ i' = i + 1
    /\ visits' = Append(visits, Visit(i, "current"))
    /\ UNCHANGED << _nodes, n, result, origin, pc, lines, a_result, a_origin, part,
                    chapter, section, article, consume_locals, conv_vars, query_vars >>

\* ScanPart with a slip: a new part clears the levels below it
ScanPartResets ==
    /\ Scanning
    /\ ~clean_and_check_blank(lines[i + 1])
    /\ RegexMatch(PART_REGEX, lines[i + 1]).matched
    /\ part' = convert_chinese_to_number(RegexMatch(PART_REGEX, lines[i + 1]).group)
    /\ chapter' = None /\ section' = None /\ article' = None
    /\ Emit(<< >>, part', None, None, None, Some(1), i, 1)
    /\ visits' = Append(visits, Visit(i, "current"))
    /\ UNCHANGED << _nodes, n, result, origin, pc, lines, consume_locals, conv_vars, query_vars >>

\* lines 72-74
ScanPart ==
    /\ Scanning
    /\ ~clean_and_check_blank(lines[i + 1])
    /\ RegexMatch(PART_REGEX, lines[i + 1]).matched
    /\ part' = convert_chinese_to_number(RegexMatch(PART_REGEX, lines[i + 1]).group)
    /\ Emit(<< >>, part', chapter, section, article, Some(1), i, 1)
    /\ visits' = Append(visits, Visit(i, "current"))
    /\ UNCHANGED << _nodes, n, result, origin, pc, lines, chapter, section, article,
                    consume_locals, conv_vars, query_vars >>

\* ScanChapter with a slip: a new chapter resets section and article
ScanChapterResets ==
    /\ Scanning
    /\ ~clean_and_check_blank(lines[i + 1])
    /\ ~RegexMatch(PART_REGEX, lines[i + 1]).matched
    /\ RegexMatch(CHAPTER_REGEX, lines[i + 1]).matched
    /\ chapter' = convert_chinese_to_number(RegexMatch(CHAPTER_REGEX, lines[i + 1]).group)
    /\ section' = None
    /\ article' = None
    /\ Emit(<< >>, part, chapter', section', article', Some(2), i, 1)
    /\ visits' = Append(visits, Visit(i, "current"))
    /\ UNCHANGED << _nodes, n, result, origin, pc, lines, part, consume_locals, conv_vars, query_vars >>

\* lines 75-77
ScanChapter ==
    /\ Scanning
    /\ ~clean_and_check_blank(lines[i + 1])
    /\ ~RegexMatch(PART_REGEX, lines[i + 1]).matched
    /\ RegexMatch(CHAPTER_REGEX, lines[i + 1]).matched
    /\ chapter' = convert_chinese_to_number(RegexMatch(CHAPTER_REGEX, lines[i + 1]).group)
    /\ Emit(<< >>, part, chapter', section, article, Some(2), i, 1)
    /\ visits' = Append(visits, Visit(i, "current"))
    /\ UNCHANGED << _nodes, n, result, origin, pc, lines, part, section, article,
                    consume_locals, conv_vars, query_vars >>

\* lines 78-80
ScanSection ==
    /\ Scanning
    /\ ~clean_and_check_blank(lines[i + 1])
    /\ ~RegexMatch(PART_REGEX, lines[i + 1]).matched
    /\ ~RegexMatch(CHAPTER_REGEX, lines[i + 1]).matched
    /\ RegexMatch(SECTION_REGEX, lines[i + 1]).matched
    /\ section' = convert_chinese_to_number(RegexMatch(SECTION_REGEX, lines[i + 1]).group)
    /\ Emit(<< >>, part, chapter, section', article, Some(3), i, 1)
    /\ visits' = Append(visits, Visit(i, "current"))
    /\ UNCHANGED << _nodes, n, result, origin, pc, lines, part, chapter, article,
                    consume_locals, conv_vars, query_vars >>

\* the elif of line 81 is reached and matches
AtArticle ==
    /\ Scanning
    /\ ~clean_and_check_blank(lines[i + 1])
    /\ ~RegexMatch(PART_REGEX, lines[i + 1]).matched
    /\ ~RegexMatch(CHAPTER_REGEX, lines[i + 1]).matched
    /\ ~RegexMatch(SECTION_REGEX, lines[i + 1]).matched
    /\ RegexMatch(ARTICLE_REGEX, lines[i + 1]).matched

\* ScanArticleSingle with a slip: the unit carries the article number that
\* was current before the line
ScanArticleSingleStale ==
    /\ AtArticle
    /\ ~has_more(i, lines[i + 1])
    /\ article' = convert_chinese_to_number(RegexMatch(ARTICLE_REGEX, lines[i + 1]).group)
    /\ Emit(<< >>, part, chapter, section, article, Some(4), i, 1)
    /\ visits' = visits \o << Visit(i, "current") >> \o HasMoreVisits(i, lines[i + 1])
    /\ UNCHANGED << _nodes, n, result, origin, pc, lines, part, chapter, section,
                    consume_locals, conv_vars, query_vars >>

\* lines 81-85 with has_more false, then 105-113
ScanArticleSingle ==
    /\ AtArticle
    /\ ~has_more(i, lines[i + 1])
    /\ article' = convert_chinese_to_number(RegexMatch(ARTICLE_REGEX, lines[i + 1]).group)
    /\ Emit(<< >>, part, chapter, section, article', Some(4), i, 1)
    /\ visits' = visits \o << Visit(i, "current") >> \o HasMoreVisits(i, lines[i + 1])
    /\ UNCHANGED << _nodes, n, result, origin, pc, lines, part, chapter, section,
                    consume_locals, conv_vars, query_vars >>

\* lines 81-91 with has_more true: the continuation loop is entered
ScanArticleMore ==
    /\ AtArticle
    /\ has_more(i, lines[i + 1])
    /\ i + 1 < Len(lines)
    /\ article' = convert_chinese_to_number(RegexMatch(ARTICLE_REGEX, lines[i + 1]).group)
    /\ line' = StripIndent(lines[i + 1])
    /\ _line' = << line' >>
    /\ temp_index' = i + 1
    /\ temp_text' = lines[temp_index' + 1]
    /\ pc' = "consume"
    /\ visits' = visits \o << Visit(i, "current") >> \o HasMoreVisits(i, lines[i + 1])
    /\ UNCHANGED << _nodes, n, result, origin, lines, a_result, a_origin, part, chapter,
                    section, i, conv_vars, query_vars >>

\* lines 81-91 with has_more true on the last line: lines[temp_index] of
\* line 91 is out of range and IndexError leaves read_with_article_pattern
\* and _parse_nodes
ScanArticleIndexError ==
    /\ AtArticle
    /\ has_more(i, lines[i + 1])
    /\ ~(i + 1 < Len(lines))
    /\ article' = convert_chinese_to_number(RegexMatch(ARTICLE_REGEX, lines[i + 1]).group)
    /\ line' = StripIndent(lines[i + 1])
    /\ _line' = << line' >>
    /\ temp_index' = i + 1
    /\ pc' = "raised"
    /\ visits' = visits \o << Visit(i, "current") >> \o HasMoreVisits(i, lines[i + 1])
    /\ UNCHANGED << _nodes, n, result, origin, lines, a_result, a_origin, part, chapter,
                    section, i, temp_text, conv_vars, query_vars >>

\* ConsumeMore with a slip: the loop does not stop at a marker line
ConsumeMoreAny == temp_index < Len(lines)

\* the condition of the while of line 92
ConsumeMore == temp_index < Len(lines) /\ none_match(temp_text, all_patterns)

\* ConsumeLine with a slip: the line feed between the lines is left out
ConsumeLineNoFeed ==
    /\ pc = "consume"
    /\ ConsumeMore
    /\ _line' = _line \o << StripIndent(temp_text) >>
    /\ temp_index' = temp_index + 1
    /\ IF temp_index' < Len(lines)
       THEN temp_text' = lines[temp_index' + 1] /\ pc' = "consume"
       ELSE temp_text' = StripIndent(temp_text) /\ pc' = "consumed"
    /\ visits' = Append(visits, Visit(temp_index, "loop_take"))
    /\ UNCHANGED << _nodes, n, result, origin, lines, a_result, a_origin, part, chapter,
                    section, article, i, line, conv_vars, query_vars >>

\* lines 92-101: one iteration of the continuation loop
ConsumeLine ==
    /\ pc = "consume"
    /\ ConsumeMore
    /\ _line' = _line \o << << "LF" >>, StripIndent(temp_text) >>
    /\ temp_index' = temp_index + 1
    /\ IF temp_index' < Len(lines)
       THEN temp_text' = lines[temp_index' + 1] /\ pc' = "consume"
       ELSE temp_text' = StripIndent(temp_text) /\ pc' = "consumed"
    /\ visits' = Append(visits, Visit(temp_index, "loop_take"))
    /\ UNCHANGED << _nodes, n, result, origin, lines, a_result, a_origin, part, chapter,
                    section, article, i, line, conv_vars, query_vars >>

\* ConsumeEnd with a slip: i = temp_index in place of i = temp_index - 1, the
\* line that ended the continuation is passed over
ConsumeEndPassesOver ==
    /\ \/ pc = "consumed"
       \/ pc = "consume" /\ ~ConsumeMore
    /\ Emit(IF join(<< >>, _line) = << >> THEN line ELSE join(<< >>, _line),
            part, chapter, section, article, Some(4), temp_index, temp_index - i + 1)
    /\ pc' = "scan"
    /\ visits' = IF pc = "consume" /\ temp_index < Len(lines)
                 THEN Append(visits, Visit(temp_index, "loop_stop")) ELSE visits
    /\ UNCHANGED << _nodes, n, result, origin, lines, part, chapter, section, article,
                    consume_locals, conv_vars, query_vars >>

\* ConsumeEnd with a slip: i = temp_index - 1 of line 102 is left out, the
\* outer scan goes on at the line after the article line
ConsumeEndNoSkip ==
    /\ \/ pc = "consumed"
       \/ pc = "consume" /\ ~ConsumeMore
    /\ Emit(IF join(<< >>, _line) = << >> THEN line ELSE join(<< >>, _line),
            part, chapter, section, article, Some(4), i, 1)
    /\ pc' = "scan"
    /\ visits' = IF pc = "consume" /\ temp_index < Len(lines)
                 THEN Append(visits, Visit(temp_index, "loop_stop")) ELSE visits
    /\ UNCHANGED << _nodes, n, result, origin, lines, part, chapter, section, article,
                    consume_locals, conv_vars, query_vars >>

\* lines 102-113: the loop is left by its condition or by break
ConsumeEnd ==
    /\ \/ pc = "consumed"
       \/ pc = "consume" /\ ~ConsumeMore
    /\ Emit(IF join(<< >>, _line) = << >> THEN line ELSE join(<< >>, _line),
            part, chapter, section, article, Some(4), temp_index - 1, temp_index - i)
    /\ pc' = "scan"
    /\ visits' = IF pc = "consume" /\ temp_index < Len(lines)
                 THEN Append(visits, Visit(temp_index, "loop_stop")) ELSE visits
    /\ UNCHANGED << _nodes, n, result, origin, lines, part, chapter, section, article,
                    consume_locals, conv_vars, query_vars >>

\* ScanPlain with a slip: _content_type is not reset at line 70, the unit
\* carries the content_type of the unit before it
ScanPlainCarries ==
    /\ Scanning
    /\ ~clean_and_check_blank(lines[i + 1])
    /\ none_match(lines[i + 1], all_patterns)
    /\ Emit(<< >>, part, chapter, section, article,
            IF a_result = << >> THEN None
            ELSE a_result[Len(a_result)].metadata.content_type,
            i, 1)
    /\ visits' = Append(visits, Visit(i, "current"))
    /\ UNCHANGED << _nodes, n, result, origin, pc, lines, part, chapter, section,
                    article, consume_locals, conv_vars, query_vars >>

\* lines 70-71 and 105-113: no pattern matches
ScanPlain ==
    /\ Scanning
    /\ ~clean_and_check_blank(lines[i + 1])
    /\ none_match(lines[i + 1], all_patterns)
    /\ Emit(<< >>, part, chapter, section, article, None, i, 1)
    /\ visits' = Append(visits, Visit(i, "current"))
    /\ UNCHANGED << _nodes, n, result, origin, pc, lines, part, chapter, section,
                    article, consume_locals, conv_vars, query_vars >>

Next ==
    \/ ParseDone
    \/ SkipNode
    \/ ReadWithout
    \/ ReadWithEnter
    \/ ReadWithReturn
    \/ ScanBlank
    \/ ScanPart
    \/ ScanChapter
    \/ ScanSection
    \/ ScanArticleSingle
    \/ ScanArticleMore
    \/ ScanArticleIndexError
    \/ ConsumeLine
    \/ ConsumeEnd
    \/ ScanPlain

Spec == Init /\ [][Next]_vars

(***************************************************************************)
(* convert_chinese_to_number as a state machine of its own                 *)
(***************************************************************************)
\* MaxGlyphs bounds the length of the arbitrary strings converted,
\* MaxStandard the integers whose standard numeral is converted
MaxGlyphs == 3
MaxStandard == 9999

Digit(d) == CHINESE_NUMBER[d + 1]

\* The standard numeral of k in 1 .. 9999: each of qian, bai, shi preceded by
\* its digit, a run of skipped positions written as one ling; with elide the
\* leading yi1 of 10 .. 19 is omitted
StandardBelow(k, elide) ==
    LET q == k \div 1000
        b == (k \div 100) % 10
        s == (k \div 10) % 10
        g == k % 10
        Q == IF q > 0 THEN << Digit(q), "qian" >> ELSE << >>
        B == IF b > 0 THEN << Digit(b), "bai" >>
             ELSE IF q > 0 /\ (s > 0 \/ g > 0) THEN << "ling" >> ELSE << >>
        S == IF s > 0
             THEN IF elide /\ k \in 10 .. 19 THEN << "shi" >> ELSE << Digit(s), "shi" >>
             ELSE IF b > 0 /\ g > 0 THEN << "ling" >> ELSE << >>
        G == IF g > 0 THEN << Digit(g) >> ELSE << >>
    IN Q \o B \o S \o G

\* ... and of k in 10000 .. 99999: the digit of wan, then the rest
Standard(k, elide) ==
    IF k < 10000 THEN StandardBelow(k, elide)
    ELSE << Digit(k \div 10000), "wan" >>
         \o (IF k % 10000 \in 1 .. 999 THEN << "ling" >> ELSE << >>)
         \o StandardBelow(k % 10000, FALSE)

\* the characters of the strings converted: the 15 glyphs and a Latin letter
ConvAlphabet == Range(CHINESE_NUMBER) \cup { "a" }

SplitterIdle ==
    /\ _nodes = << >> /\ n = 0 /\ result = << >> /\ origin = << >> /\ pc = "idle"
    /\ lines = << >> /\ a_result = << >> /\ a_origin = << >>
    /\ part = None /\ chapter = None /\ section = None /\ article = None
    /\ i = 0 /\ line = << >> /\ _line = << >> /\ temp_index = 0 /\ temp_text = << >>
    /\ visits = << >>

InitConv ==
    /\ SplitterIdle
    /\ QueryIdle
    /\ \/ \E size \in 0 .. MaxGlyphs : cs \in [ 1 .. size -> ConvAlphabet ]
       \/ \E k \in 1 .. MaxStandard : \E elide \in BOOLEAN : cs = Standard(k, elide)
    /\ cvalues = << >> /\ cst = ConvInit /\ cpc = "check" /\ cret = None
    /\ cbranches = << >>

\* ConvReject with a slip: 0 is returned for a string that is no numeral
ConvRejectZero ==
    /\ cpc = "check"
    /\ cs = << >> \/ ~is_chinese_number(cs)
    /\ cret' = Some(0)
    /\ cpc' = "returned"
    /\ UNCHANGED << cs, cvalues, cst, cbranches, splitter_vars, query_vars >>

\* lines 24-25
ConvReject ==
    /\ cpc = "check"
    /\ cs = << >> \/ ~is_chinese_number(cs)
    /\ cret' = None
    /\ cpc' = "returned"
    /\ UNCHANGED << cs, cvalues, cst, cbranches, splitter_vars, query_vars >>

\* lines 27-31
ConvStart ==
    /\ cpc = "check"
    /\ ~(cs = << >> \/ ~is_chinese_number(cs))
    /\ cvalues' = ValuesOf(cs)
    /\ cst' = ConvInit
    /\ cpc' = "loop"
    /\ UNCHANGED << cs, cret, cbranches, splitter_vars, query_vars >>

\* lines 33-61: one iteration
ConvIterate ==
    /\ cpc = "loop"
    /\ cst.index < Len(cvalues)
    /\ cst' = ConvStep(cvalues, cst)
    /\ cbranches' = Append(cbranches, ConvBranch(cvalues, cst.index, cst.skip_next))
    /\ UNCHANGED << cs, cvalues, cpc, cret, splitter_vars, query_vars >>

\* line 63
ConvReturn ==
    /\ cpc = "loop"
    /\ ~(cst.index < Len(cvalues))
    /\ cret' = Some(cst.result)
    /\ cpc' = "returned"
    /\ UNCHANGED << cs, cvalues, cst, cbranches, splitter_vars, query_vars >>

NextConv ==
    \/ ConvReject
    \/ ConvStart
    \/ ConvIterate
    \/ ConvReturn

SpecConv == InitConv /\ [][NextConv]_vars

(***************************************************************************)
(* is_chinese_number called by itself: cret holds the boolean it returns   *)
(***************************************************************************)
InitIs ==
    /\ SplitterIdle
    /\ QueryIdle
    /\ \E size \in 0 .. MaxGlyphs : cs \in [ 1 .. size -> ConvAlphabet ]
    /\ cvalues = << >> /\ cst = ConvInit /\ cpc = "call" /\ cret = None
    /\ cbranches = << >>

\* line 11
IsChineseNumberCall ==
    /\ cpc = "call"
    /\ cret' = Some(is_chinese_number(cs))
    /\ cpc' = "returned"
    /\ UNCHANGED << cs, cvalues, cst, cbranches, splitter_vars, query_vars >>

SpecIs == InitIs /\ [][IsChineseNumberCall]_vars

(***************************************************************************)
(* The if/elif chain of read_with_article_pattern (lines 72-82) on a line  *)
(* by itself: cs is the line, cret the _content_type the chain gives       *)
(***************************************************************************)
\* MaxLine bounds the length of the lines classified
MaxLine == 4

\* the characters of the lines classified
LineAlphabet ==
    { " ", "U3000", "di", "yi1", "shi", "bian", "zhang", "jie", "tiao", "a" }

\* the chain with the patterns tested in the given order: the first pattern
\* that matches decides; pattern k of all_patterns gives _content_type k
Classify(text, order) ==
    LET hits == { k \in DOMAIN order : RegexMatch(all_patterns[order[k]], text).matched } IN
    IF hits = { } THEN None
    ELSE Some(order[CHOOSE k \in hits : \A j \in hits : k <= j])

InitClassify ==
    /\ SplitterIdle
    /\ QueryIdle
    /\ \E size \in 0 .. MaxLine : cs \in [ 1 .. size -> LineAlphabet ]
    /\ cvalues = << >> /\ cst = ConvInit /\ cpc = "call" /\ cret = None
    /\ cbranches = << >>

\* lines 70-82: Part, Chapter, Section, Article in this order
ClassifyLine ==
    /\ cpc = "call"
    /\ cret' = Classify(cs, << 1, 2, 3, 4 >>)
    /\ cpc' = "returned"
    /\ UNCHANGED << cs, cvalues, cst, cbranches, splitter_vars, query_vars >>

SpecClassify == InitClassify /\ [][ClassifyLine]_vars

(***************************************************************************)
(* The query pipeline: query_processing/query_pre, query_processing/       *)
(* query_post and QueryAPI._query (api/query.py).  A query is a sequence   *)
(* of characters: "fei" "fa" "ci" spell 非法词, "min" "gan" "ci" 敏感词.   *)
(***************************************************************************)
\* The longest query text handed to QueryAPI._query.
MaxText == 3

QueryAlphabet == { "fei", "fa", "min", "gan", "ci" }

StringsUpTo(size, alphabet) == UNION { [1 .. k -> alphabet] : k \in 0 .. size }

Texts == StringsUpTo(MaxText, QueryAlphabet)

\* sensitive_word_processor.py:6
sensitive_words == << << "fei", "fa", "ci" >>, << "min", "gan", "ci" >> >>

\* str.replace(old, ""): the occurrences of old are found from left to
\* right, the search resuming after each occurrence; what is left is joined
\* once and is not searched again.
RECURSIVE Replace(_, _)
Replace(s, old) ==
    IF Len(s) < Len(old) THEN s
    ELSE IF SubSeq(s, 1, Len(old)) = old
         THEN Replace(SubSeq(s, Len(old) + 1, Len(s)), old)
         ELSE << s[1] >> \o Replace(Tail(s), old)

\* SensitiveWordProcessor.run: the loop over sensitive_words, k words done.
RECURSIVE SensitiveLoop(_, _)
SensitiveLoop(q, k) ==
    IF k >= Len(sensitive_words) THEN q
    ELSE SensitiveLoop(Replace(q, sensitive_words[k + 1]), k + 1)

SensitiveWordProcessor_run(q) == SensitiveLoop(q, 0)

\* What chat_model.generate may answer: the model is outside the repository,
\* its answer is any of these whatever the prompt.
Generated == { << "min" >>, << " ", "fa", "ci", " " >> }

\* QuestionOptimizerProcessor.run: the stripped answer of the chat model, or
\* the query itself when anything raises.  The possible return values.
QuestionOptimizerProcessor_run(q) == { strip(g) : g \in Generated } \cup { q }

\* PreQueryProcessorChain.run over the processors init_app installs: each
\* processor receives the previous one's output.  The possible return values.
PreQueryProcessorChain_run(q) ==
    QuestionOptimizerProcessor_run(SensitiveWordProcessor_run(q))

\* A class is the record of its methods; a method maps its argument to the
\* values it may return.  PreQueryProcessorChain defines run and nothing else.
PreQueryProcessorChain == [ run |-> [ q \in Texts |-> PreQueryProcessorChain_run(q) ] ]

\* What query_service.query may return: lists of node ids, best first.
Retrievals == { << >>, << 1 >>, << 1, 2 >>, << 2, 1 >> }

\* RerankProcessor._postprocess_nodes hands the nodes to a rerank model that
\* is outside the repository: it answers some of the nodes in some order.
Reranked(nodes) == { r \in Retrievals : Range(r) \subseteq Range(nodes) }

\* PostProcessorChain defines run, which calls apply on each processor;
\* RerankProcessor defines no apply, so that run raises AttributeError.
RerankProcessor == [ _postprocess_nodes |-> [ nodes \in Retrievals |-> Reranked(nodes) ] ]

PostProcessorChain_run(nodes) ==
    IF "apply" \in DOMAIN RerankProcessor
    THEN [ raised |-> "", values |-> RerankProcessor["apply"][nodes] ]
    ELSE [ raised |-> "AttributeError", values |-> { } ]

PostProcessorChain == [ run |-> [ nodes \in Retrievals |-> PostProcessorChain_run(nodes) ] ]

\* The state when _query is entered, after init_app has built both chains.
InitQuery ==
    /\ SplitterIdle
    /\ ConvIdle
    /\ SensitiveIdle
    /\ RouterIdle
    /\ query_text \in Texts
    /\ enable_pre_processing \in BOOLEAN
    /\ enable_post_processing \in BOOLEAN
    /\ processed_query = << >>
    /\ sent_query = << >>
    /\ retrieved = << >>
    /\ results = << >>
    /\ pre_error = ""
    /\ post_error = ""
    /\ qpc = "pre"

\* api/query.py:106-107, the condition false: no pre-processing.
QueryPreSkip ==
    /\ qpc = "pre"
    /\ ~ enable_pre_processing
    /\ processed_query' = query_text
    /\ qpc' = "retrieve"
    /\ UNCHANGED << query_text, enable_pre_processing, enable_post_processing,
                    sent_query, retrieved, results, pre_error, post_error,
                    sensitive_vars, router_vars, splitter_vars, conv_vars >>

\* The try block of the pre-processing step with no except clause: the
\* exception leaves _query.
QueryPreEscapes ==
    /\ qpc = "pre"
    /\ enable_pre_processing
    /\ IF "postprocess_nodes" \in DOMAIN PreQueryProcessorChain
       THEN /\ processed_query' \in PreQueryProcessorChain["postprocess_nodes"][query_text]
            /\ pre_error' = pre_error
            /\ qpc' = "retrieve"
       ELSE /\ processed_query' = query_text
            /\ pre_error' = "AttributeError"
            /\ qpc' = "raised_pre"
    /\ UNCHANGED << query_text, enable_pre_processing, enable_post_processing,
                    sent_query, retrieved, results, post_error,
                    sensitive_vars, router_vars, splitter_vars, conv_vars >>

\* api/query.py:106-114: the chain object is truthy; the method
\* postprocess_nodes is looked up on it and called with the query; any
\* exception is caught and the original query is used.
QueryPreTry ==
    /\ qpc = "pre"
    /\ enable_pre_processing
    /\ IF "postprocess_nodes" \in DOMAIN PreQueryProcessorChain
       THEN /\ processed_query' \in PreQueryProcessorChain["postprocess_nodes"][query_text]
            /\ pre_error' = pre_error
       ELSE /\ processed_query' = query_text
            /\ pre_error' = "AttributeError"
    /\ qpc' = "retrieve"
    /\ UNCHANGED << query_text, enable_pre_processing, enable_post_processing,
                    sent_query, retrieved, results, post_error,
                    sensitive_vars, router_vars, splitter_vars, conv_vars >>

\* api/query.py:117-122: query_service.query returns a list of nodes.
QueryRetrieve ==
    /\ qpc = "retrieve"
    /\ sent_query' = processed_query
    /\ retrieved' \in Retrievals
    /\ results' = retrieved'
    /\ qpc' = "post"
    /\ UNCHANGED << query_text, enable_pre_processing, enable_post_processing,
                    processed_query, pre_error, post_error,
                    sensitive_vars, router_vars, splitter_vars, conv_vars >>

\* api/query.py:117-122: query_service.query raises (the vector store is
\* unreachable, say); no try block surrounds the call.
QueryRetrieveRaises ==
    /\ qpc = "retrieve"
    /\ sent_query' = processed_query
    /\ qpc' = "raised"
    /\ UNCHANGED << query_text, enable_pre_processing, enable_post_processing,
                    processed_query, retrieved, results, pre_error, post_error,
                    sensitive_vars, router_vars, splitter_vars, conv_vars >>

\* api/query.py:125 and 133, the condition false: no post-processing.
QueryPostSkip ==
    /\ qpc = "post"
    /\ ~ enable_post_processing
    /\ qpc' = "returned"
    /\ UNCHANGED << api_vars, sensitive_vars, router_vars, splitter_vars, conv_vars >>

\* api/query.py:125-133: the method postprocess_nodes is looked up on the
\* chain and called with the results and the processed query; any exception
\* is caught and results keeps its value.
QueryPostTry ==
    /\ qpc = "post"
    /\ enable_post_processing
    /\ IF "postprocess_nodes" \in DOMAIN PostProcessorChain
       THEN LET call == PostProcessorChain["postprocess_nodes"][results] IN
            IF call.raised = ""
            THEN results' \in call.values /\ post_error' = post_error
            ELSE results' = results /\ post_error' = call.raised
       ELSE /\ results' = results
            /\ post_error' = "AttributeError"
    /\ qpc' = "returned"
    /\ UNCHANGED << query_text, enable_pre_processing, enable_post_processing,
                    processed_query, sent_query, retrieved, pre_error,
                    sensitive_vars, router_vars, splitter_vars, conv_vars >>

NextQuery ==
    \/ QueryPreSkip
    \/ QueryPreTry
    \/ QueryRetrieve
    \/ QueryRetrieveRaises
    \/ QueryPostSkip
    \/ QueryPostTry

SpecQuery == InitQuery /\ [][NextQuery]_vars

(***************************************************************************)
(* SensitiveWordProcessor.run as a machine of its own: one step per        *)
(* iteration of the loop over sensitive_words.                             *)
(***************************************************************************)
\* The longest query handed to SensitiveWordProcessor.run.
MaxQuery == 6

InitSensitive ==
    /\ SplitterIdle
    /\ ConvIdle
    /\ ApiIdle
    /\ RouterIdle
    /\ s_input \in StringsUpTo(MaxQuery, QueryAlphabet)
    /\ query = s_input
    /\ word = 0
    /\ qpc = "replace"

\* sensitive_word_processor.py:7-8, one iteration
SensitiveReplace ==
    /\ qpc = "replace"
    /\ word < Len(sensitive_words)
    /\ query' = Replace(query, sensitive_words[word + 1])
    /\ word' = word + 1
    /\ UNCHANGED << s_input, qpc, api_vars, router_vars, splitter_vars, conv_vars >>

\* sensitive_word_processor.py:9, the loop exhausted
SensitiveReturn ==
    /\ qpc = "replace"
    /\ word = Len(sensitive_words)
    /\ qpc' = "replaced"
    /\ UNCHANGED << sensitive_vars, api_vars, router_vars, splitter_vars, conv_vars >>

NextSensitive == SensitiveReplace \/ SensitiveReturn

SpecSensitive == InitSensitive /\ [][NextSensitive]_vars

(***************************************************************************)
(* QueryRouter.determine_mode (query_construction/routing.py).  A string   *)
(* is a sequence of one-character strings; a parameter value is a string,  *)
(* None or a number, as the JSON body of the request supplies it           *)
(* (api/query.py:237-239 copies data['mode'] as it is).                    *)
(***************************************************************************)
UPPERCASE ==
    << "A", "B", "C", "D", "E", "F", "G", "H", "I", "J", "K", "L", "M",
       "N", "O", "P", "Q", "R", "S", "T", "U", "V", "W", "X", "Y", "Z" >>
LOWERCASE ==
    << "a", "b", "c", "d", "e", "f", "g", "h", "i", "j", "k", "l", "m",
       "n", "o", "p", "q", "r", "s", "t", "u", "v", "w", "x", "y", "z" >>

lower_char(c) ==
    IF \E k \in DOMAIN UPPERCASE : UPPERCASE[k] = c
    THEN LOWERCASE[CHOOSE k \in DOMAIN UPPERCASE : UPPERCASE[k] = c]
    ELSE c

\* str.lower
lower(s) == [ k \in DOMAIN s |-> lower_char(s[k]) ]

StrValue(s) == [ type |-> "str", str |-> s ]
NoneValue == [ type |-> "NoneType", str |-> << >> ]
IntValue == [ type |-> "int", str |-> << >> ]

\* routing.py:31
valid_modes ==
    << << "v", "e", "c", "t", "o", "r" >>,
       << "t", "e", "x", "t" >>,
       << "h", "y", "b", "r", "i", "d" >>,
       << "s", "p", "a", "r", "s", "e" >>,
       << "s", "e", "m", "a", "n", "t", "i", "c", "_", "h", "y", "b", "r", "i", "d" >> >>

\* routing.py:35
param_names == << "mode", "search_mode", "query_mode" >>

\* The values a request may give a parameter.
ParamValues ==
    { StrValue(<< "v", "e", "c", "t", "o", "r" >>),
      StrValue(<< "T", "e", "x", "t" >>),
      StrValue(<< "H", "Y", "B", "R", "I", "D" >>),
      StrValue(<< "s", "p", "a", "r", "s", "e" >>),
      StrValue(<< "S", "e", "m", "a", "n", "t", "i", "c", "_", "H", "y", "b", "r", "i", "d" >>),
      StrValue(<< "f", "a", "s", "t" >>),
      StrValue(<< " ", "t", "e", "x", "t" >>),
      StrValue(<< >>),
      NoneValue,
      IntValue }

\* The dictionaries over the three names; None and {} are both << >>, which
\* is what params or {} (routing.py:28) makes of them.
ParamDicts == UNION { [names -> ParamValues] : names \in SUBSET Range(param_names) }

\* What DEFAULT_SEARCH_MODE may configure (routing.py:16).
DefaultModes == { valid_modes[1], valid_modes[3] }

InitRouter ==
    /\ SplitterIdle
    /\ ConvIdle
    /\ ApiIdle
    /\ SensitiveIdle
    /\ params \in ParamDicts
    /\ default_mode \in DefaultModes
    /\ param_name = 0
    /\ mode_ret = << >>
    /\ qpc = "names"

\* routing.py:35-36, the name is not a key of params
RouterAbsent ==
    /\ qpc = "names"
    /\ param_name < Len(param_names)
    /\ param_names[param_name + 1] \notin DOMAIN params
    /\ param_name' = param_name + 1
    /\ UNCHANGED << params, default_mode, mode_ret, qpc,
                    api_vars, sensitive_vars, splitter_vars, conv_vars >>

\* routing.py:36-39, the value is a string whose lower case is a valid mode
RouterValid ==
    /\ qpc = "names"
    /\ param_name < Len(param_names)
    /\ param_names[param_name + 1] \in DOMAIN params
    /\ LET value == params[param_names[param_name + 1]] IN
       /\ value.type = "str"
       /\ lower(value.str) \in Range(valid_modes)
       /\ mode_ret' = lower(value.str)
    /\ param_name' = param_name + 1
    /\ qpc' = "mode_returned"
    /\ UNCHANGED << params, default_mode,
                    api_vars, sensitive_vars, splitter_vars, conv_vars >>

\* routing.py:36-38, the value is a string whose lower case is no valid mode
RouterInvalid ==
    /\ qpc = "names"
    /\ param_name < Len(param_names)
    /\ param_names[param_name + 1] \in DOMAIN params
    /\ LET value == params[param_names[param_name + 1]] IN
       /\ value.type = "str"
       /\ lower(value.str) \notin Range(valid_modes)
    /\ param_name' = param_name + 1
    /\ UNCHANGED << params, default_mode, mode_ret, qpc,
                    api_vars, sensitive_vars, splitter_vars, conv_vars >>

\* routing.py:37, the value is no string: it has no method lower and the
\* call raises AttributeError, which determine_mode does not catch
RouterAttributeError ==
    /\ qpc = "names"
    /\ param_name < Len(param_names)
    /\ param_names[param_name + 1] \in DOMAIN params
    /\ params[param_names[param_name + 1]].type # "str"
    /\ param_name' = param_name + 1
    /\ qpc' = "mode_raised"
    /\ UNCHANGED << params, default_mode, mode_ret,
                    api_vars, sensitive_vars, splitter_vars, conv_vars >>

\* routing.py:42, the loop exhausted
RouterDefault ==
    /\ qpc = "names"
    /\ param_name = Len(param_names)
    /\ mode_ret' = default_mode
    /\ qpc' = "mode_returned"
    /\ UNCHANGED << params, default_mode, param_name,
                    api_vars, sensitive_vars, splitter_vars, conv_vars >>

NextRouter ==
    \/ RouterAbsent
    \/ RouterValid
    \/ RouterInvalid
    \/ RouterAttributeError
    \/ RouterDefault

SpecRouter == InitRouter /\ [][NextRouter]_vars

(***************************************************************************)
(* The vocabulary of the properties, stated without the code's operators   *)
(***************************************************************************)
\* MaxNumber bounds the numbers the marker lines of the documents carry
MaxNumber == 20

Levels == { "part", "chapter", "section", "article" }
LevelMark == [ part |-> "bian", chapter |-> "zhang", section |-> "jie", article |-> "tiao" ]
LevelType == [ part |-> 1, chapter |-> 2, section |-> 3, article |-> 4 ]
InfoKeys == Levels \cup { "content_type" }

\* whitespace other than the line feed
Spaces == { " ", "U3000", "UA0" }

\* The numerals nm for which the characters of s from position a on read:
\* some spaces, di, nm, mark
NumeralsAt(s, a, mark) ==
    UNION { { SubSeq(s, a + k + 1, a + k + m) :
                m \in { x \in 1 .. Len(s) - (a + k) - 1 :
                          /\ \A j \in a + k + 1 .. a + k + x : s[j] \in NUM_STR
                          /\ s[a + k + x + 1] = mark } } :
            k \in { x \in 0 .. Len(s) - a :
                      /\ s[a + x] = "di"
                      /\ \A j \in a .. a + x - 1 : s[j] \in Spaces } }

\* l is a marker line of the level
IsMarker(level, l) == NumeralsAt(l, 1, LevelMark[level]) # { }
IsAnyMarker(l) == \E level \in Levels : IsMarker(level, l)

\* the number a numeral stands for: the k whose standard numeral it is
NumeralValue(nm) ==
    CHOOSE k \in 1 .. MaxNumber : \E elide \in BOOLEAN : Standard(k, elide) = nm

\* the number of the marker line l of the level
MarkerNumber(level, l) ==
    NumeralValue(CHOOSE nm \in NumeralsAt(l, 1, LevelMark[level]) : TRUE)

\* a field of a unit; a key the metadata does not hold reads as None
Field(u, key) == IF key \in DOMAIN u.metadata THEN u.metadata[key] ELSE None

SetMax(S) == CHOOSE x \in S : \A y \in S : y <= x

\* the 1-based positions j <= upto of the marker lines of the level in ls
MarkersUpTo(ls, level, upto) == { j \in 1 .. upto : IsMarker(level, ls[j]) }

\* the number of consecutive lines after position j of ls that are no marker
RunAfter(ls, j) ==
    SetMax({ r \in 0 .. Len(ls) - j : \A d \in 1 .. r : ~IsAnyMarker(ls[j + d]) })

SetMin(S) == CHOOSE x \in S : \A y \in S : x <= y

RECURSIVE SortedSeq(_)
\* the elements of a finite set of integers in increasing order
SortedSeq(S) == IF S = { } THEN << >> ELSE << SetMin(S) >> \o SortedSeq(S \ { SetMin(S) })

\* The lines of a text: a line starts at the first character and after each
\* line feed, and runs up to the next line feed
LineStarts(text) == { a \in 1 .. Len(text) : a = 1 \/ text[a - 1] = "LF" }
LineEnd(text, a) ==
    SetMax({ b \in a - 1 .. Len(text) : \A j \in a .. b : text[j] # "LF" })

\* the line that starts at a without its leading and trailing whitespace
Trimmed(text, a) ==
    LET inner == { j \in a .. LineEnd(text, a) : text[j] \notin Spaces } IN
    IF inner = { } THEN << >> ELSE SubSeq(text, SetMin(inner), SetMax(inner))

\* the trimmed non-blank lines of a text, in order
TrimmedLines(text) ==
    LET st == SortedSeq({ a \in LineStarts(text) : Trimmed(text, a) # << >> }) IN
    [ m \in DOMAIN st |-> Trimmed(text, st[m]) ]

\* some line of the text is an Article marker line
HasArticleLine(text) ==
    \E a \in LineStarts(text) : NumeralsAt(text, a, "tiao") # { }

\* the 1-based positions in result of the units that come from node d
UnitsOf(d) == SortedSeq({ k \in DOMAIN result : origin[k].doc = d })

\* read_with_article_pattern has scanned its lines and is about to return
\* a_result: the units it emits
Returning == pc = "scan" /\ i >= Len(lines)

\* _parse_nodes is at the head of its loop or has returned: result holds
\* the units of the first n nodes
AtLoopHead == pc \in { "parse", "done" }

(***************************************************************************)
(* C1  Sticky structural state: in read_with_article_pattern each of part, *)
(* chapter, section and article of every emitted unit is the number of the *)
(* most recent marker line of that level at or before the unit's first     *)
(* line, is None only if there is no such line, and once not None in a     *)
(* unit it is not None in every later unit of the document.                *)
(***************************************************************************)
C1_Sticky ==
    Returning =>
        /\ \A k \in DOMAIN a_result : \A level \in Levels :
             LET ms == MarkersUpTo(lines, level, a_origin[k].first + 1) IN
             Field(a_result[k], level) =
                IF ms = { } THEN None ELSE Some(MarkerNumber(level, lines[SetMax(ms)]))
        /\ \A k \in DOMAIN a_result : \A later \in DOMAIN a_result : \A level \in Levels :
             (k < later /\ Field(a_result[k], level) # None)
                => Field(a_result[later], level) # None

\* two articles under one chapter: the second article unit carries the
\* chapter of the earlier chapter line and the number of its own line, the
\* first one the previous article number
C1_Witness ==
    Returning /\ \E k \in DOMAIN a_result : \E later \in DOMAIN a_result :
        /\ k < later
        /\ Field(a_result[k], "chapter") = Some(1)
        /\ Field(a_result[k], "article") = Some(1)
        /\ Field(a_result[later], "chapter") = Some(1)
        /\ Field(a_result[later], "article") = Some(2)
        /\ Field(a_result[later], "part") = None

(***************************************************************************)
(* C2  Multi-line article continuation: an article line followed by        *)
(* r >= 1 consecutive lines that match no marker pattern is emitted as one *)
(* unit whose text is the article line and those r lines joined by line    *)
(* feeds; the unit holds no further line, and the line after the run, if   *)
(* any, starts the next unit.                                              *)
(***************************************************************************)
C2_Continuation ==
    Returning =>
        \A k \in DOMAIN a_result :
            LET f == a_origin[k].first + 1
                r == RunAfter(lines, f) IN
            (IsMarker("article", lines[f]) /\ r >= 1) =>
                /\ a_result[k].text = join(<< "LF" >>, SubSeq(lines, f, f + r))
                /\ a_origin[k].count = r + 1
                /\ f + r < Len(lines) =>
                     /\ IsAnyMarker(lines[f + r + 1])
                     /\ k < Len(a_result)
                     /\ a_origin[k + 1].first + 1 = f + r + 1
                /\ f + r = Len(lines) => k = Len(a_result)

\* an article with a continuation line, followed by a marker line that
\* starts the next unit
C2_Witness ==
    /\ Returning
    /\ Len(a_result) = 2
    /\ a_origin[1].count = 2
    /\ a_result[1].text = << "di", "yi1", "tiao", " ", "b", "LF", "a", ":" >>
    /\ a_result[2].text = ArticleLine

(***************************************************************************)
(* C3  The unit emitted for a Part, Chapter, Section or Article marker     *)
(* line has content_type 1, 2, 3 or 4 and carries in the field of that     *)
(* level the number of that very line; for the lines chapter 1, article 1, *)
(* article 2 the chapter unit has content_type 2 and the article units     *)
(* content_type 4, chapter 1 and article 1 resp. 2.                        *)
(***************************************************************************)
C3_Example == << strip(ChapterLine), strip(IndentedArticleLine), ArticleLine >>

C3_MarkerUnits ==
    Returning =>
    /\ \A k \in DOMAIN a_result : \A level \in Levels :
         LET l == lines[a_origin[k].first + 1] IN
         IsMarker(level, l) =>
            /\ Field(a_result[k], "content_type") = Some(LevelType[level])
            /\ Field(a_result[k], level) = Some(MarkerNumber(level, l))
    /\ lines = C3_Example =>
         /\ Len(a_result) = 3
         /\ Field(a_result[1], "content_type") = Some(2)
         /\ \A k \in 2 .. 3 :
              /\ Field(a_result[k], "content_type") = Some(4)
              /\ Field(a_result[k], "chapter") = Some(1)
              /\ Field(a_result[k], "article") = Some(k - 1)

C3_Witness ==
    /\ Returning
    /\ lines = C3_Example
    /\ Len(a_result) = 3
    /\ Field(a_result[3], "article") = Some(2)

(***************************************************************************)
(* C4  The splitter never raises, whatever the lines of the documents and  *)
(* whatever line stands last.                                              *)
(***************************************************************************)
C4_NeverRaises == pc # "raised"

(***************************************************************************)
(* C5  Numeral conversion: the table of the specification, and every       *)
(* integer of 1 .. MaxStandard written in standard form converts to        *)
(* itself.                                                                 *)
(***************************************************************************)
C5_Table ==
    { << << "yi1" >>, 1 >>,
      << << "shi" >>, 10 >>,
      << << "shi", "yi1" >>, 11 >>,
      << << "er", "shi" >>, 20 >>,
      << << "er", "shi", "yi1" >>, 21 >>,
      << << "yi1", "bai" >>, 100 >>,
      << << "san", "bai", "er", "shi", "yi1" >>, 321 >>,
      << << "yi1", "qian", "ling", "yi1" >>, 1001 >>,
      << << "yi1", "wan" >>, 10000 >> }

\* the standard numerals with the integers they stand for
C5_Standard == { << Standard(k, elide), k >> : k \in 1 .. MaxStandard, elide \in BOOLEAN }
C5_Numerals == { p[1] : p \in C5_Standard }

C5_Conversion ==
    cpc = "returned" =>
        /\ \A t \in C5_Table : cs = t[1] => cret = Some(t[2])
        /\ cs \in C5_Numerals => (cret # None /\ << cs, cret[1] >> \in C5_Standard)

C5_Witness ==
    /\ cpc = "returned"
    /\ cs = << "yi1", "qian", "ling", "yi1" >>
    /\ cret = Some(1001)
    /\ cbranches = << "digit_times_unit", "skip", "digit", "digit" >>

(***************************************************************************)
(* C6  Invalid numeral.  As claimed: convert_chinese_to_number raises, and *)
(* returns no value, exactly when s is empty or holds a character outside  *)
(* the 15 glyphs, and returns an integer otherwise.  As the code has it:   *)
(* it never raises; it returns None exactly in those cases and an integer  *)
(* otherwise.                                                              *)
(***************************************************************************)
C6_Glyphs ==
    { "ling", "yi1", "er", "san", "si", "wu", "liu", "qi", "ba", "jiu",
      "shi", "bai", "qian", "wan", "yi4" }

C6_Invalid == cs = << >> \/ \E k \in DOMAIN cs : cs[k] \notin C6_Glyphs

C6_RaisesOnInvalid ==
    cpc \in { "returned", "raised" } =>
        IF C6_Invalid THEN cpc = "raised"
        ELSE cpc = "returned" /\ cret # None /\ cret[1] \in Nat

C6_NoneOnInvalid ==
    /\ cpc # "raised"
    /\ cpc = "returned" =>
         IF C6_Invalid THEN cret = None
         ELSE cret # None /\ cret[1] \in Nat

C6_Witness ==
    /\ cpc = "returned"
    /\ cs = << "yi1", "a" >>
    /\ cret = None

(***************************************************************************)
(* C7  Marker detection: a Document is split by read_with_article_pattern  *)
(* if and only if some line of its text is an Article marker line (leading *)
(* whitespace allowed); a text whose only marker lines are Part, Chapter   *)
(* or Section lines is split by read_without_article_pattern.              *)
(***************************************************************************)
C7_Detection ==
    /\ (pc = "scan" /\ i = 0) => HasArticleLine(_nodes[n + 1].text)
    /\ AtLoopHead => \A d \in 1 .. n :
         _nodes[d].is_document =>
            (HasArticleLine(_nodes[d].text)
               <=> \E k \in DOMAIN result : origin[k].doc = d /\ result[k].metadata # NoInfo)

\* a Document whose only marker line is a Chapter line gives a unit without
\* structural fields, an indented Article line gives an article unit
C7_Witness ==
    /\ pc = "done"
    /\ Len(result) = 2
    /\ result[1] = TextNode(ChapterLine, NoInfo)
    /\ origin[2].doc = 2
    /\ _nodes[2].text = IndentedArticleLine
    /\ Field(result[2], "content_type") = Some(4)

(***************************************************************************)
(* C8  Top-level dispatch: the result is the concatenation, in input       *)
(* order, of what each Document gives by itself: by Algorithm A if its     *)
(* text has an Article marker line, by Algorithm B otherwise, each scanned *)
(* from part, chapter, section and article all None.                       *)
(***************************************************************************)
\* a line that holds nothing but zero-width characters and whitespace
EffectivelyBlank(l) == \A k \in DOMAIN l : l[k] \in ZERO_WIDTH_PATTERN \cup Spaces

\* line j of ls belongs to the article that the last marker line before it opens
Continues(ls, j) ==
    LET ms == { a \in 1 .. j - 1 : IsAnyMarker(ls[a]) } IN
    /\ ~IsAnyMarker(ls[j])
    /\ ms # { }
    /\ IsMarker("article", ls[SetMax(ms)])

\* the lines that start a unit of Algorithm A
UnitStarts(ls) ==
    { j \in DOMAIN ls :
        \/ IsAnyMarker(ls[j])
        \/ ~EffectivelyBlank(ls[j]) /\ ~Continues(ls, j) }

\* the unit of Algorithm A that starts at line j, by ls alone
UnitAt(ls, j) ==
    LET sticky(level) ==
            LET ms == MarkersUpTo(ls, level, j) IN
            IF ms = { } THEN None ELSE Some(MarkerNumber(level, ls[SetMax(ms)]))
        own == { level \in Levels : IsMarker(level, ls[j]) }
    IN TextNode(IF IsMarker("article", ls[j])
                THEN join(<< "LF" >>, SubSeq(ls, j, j + RunAfter(ls, j)))
                ELSE ls[j],
                ExtraInfo(sticky("part"), sticky("chapter"), sticky("section"),
                          sticky("article"),
                          IF own = { } THEN None
                          ELSE Some(LevelType[CHOOSE level \in own : TRUE])))

AlgorithmA(ls) ==
    LET st == SortedSeq(UnitStarts(ls)) IN [ m \in DOMAIN st |-> UnitAt(ls, st[m]) ]

AlgorithmB(ls) == [ m \in DOMAIN ls |-> TextNode(ls[m], NoInfo) ]

SplitAlone(text) ==
    IF HasArticleLine(text) THEN AlgorithmA(TrimmedLines(text))
    ELSE AlgorithmB(TrimmedLines(text))

RECURSIVE Concatenation(_, _)
\* what the first upto nodes give, the nodes that are no Document giving nothing
Concatenation(nodes, upto) ==
    IF upto = 0 THEN << >>
    ELSE Concatenation(nodes, upto - 1)
         \o (IF nodes[upto].is_document THEN SplitAlone(nodes[upto].text) ELSE << >>)

C9_RoundTrip ==
    AtLoopHead => \A d \in 1 .. n :
        (_nodes[d].is_document /\ ~HasArticleLine(_nodes[d].text)) =>
            LET ks == UnitsOf(d)
                ls == TrimmedLines(_nodes[d].text) IN
            /\ Len(ks) = Len(ls)
            /\ \A m \in DOMAIN ks :
                 /\ result[ks[m]].text = ls[m]
                 /\ \A key \in InfoKeys : Field(result[ks[m]], key) = None

C9_Witness ==
    /\ pc = "done"
    /\ _nodes[1].text = IndentedPlainLine \o << "LF" >> \o BlankLine \o << "LF" >> \o ChapterLine
    /\ Len(result) = 2
    /\ result[1].text = << "b" >>
    /\ result[2].text = ChapterLine

(***************************************************************************)
(* C10  Zero-width stripping: a line that holds nothing but zero-width     *)
(* characters appears in no unit, neither as the text of a unit nor as a   *)
(* line of it.                                                             *)
(***************************************************************************)
HoldsZeroWidthLine(text) ==
    \E a \in LineStarts(text) :
        /\ LineEnd(text, a) >= a
        /\ \A j \in a .. LineEnd(text, a) : text[j] \in ZERO_WIDTH_PATTERN

C10_NoZeroWidthLine ==
    /\ \A k \in DOMAIN result : ~HoldsZeroWidthLine(result[k].text)
    /\ \A k \in DOMAIN a_result : ~HoldsZeroWidthLine(a_result[k].text)

(***************************************************************************)
(* C11  Frame effect of a plain line.  A line of read_with_article_pattern *)
(* that matches no marker pattern and is taken by the outer scan is        *)
(* emitted as a unit of its own whose text is the line and whose part,     *)
(* chapter, section and article are those of the unit emitted before it    *)
(* (None for the first unit).  As claimed: its content_type is that of the *)
(* unit before it as well.  As the code has it: its content_type is None.  *)
(***************************************************************************)
\* unit k of a_result is a line taken by the outer scan that is no marker
PlainUnit(k) == ~IsAnyMarker(lines[a_origin[k].first + 1])

\* the value of a field in the unit emitted before unit k
Carried(k, key) == IF k = 1 THEN None ELSE Field(a_result[k - 1], key)

C11_CarriesContentType ==
    Returning =>
        \A k \in DOMAIN a_result :
            PlainUnit(k) =>
                /\ a_origin[k].count = 1
                /\ a_result[k].text = lines[a_origin[k].first + 1]
                /\ \A key \in InfoKeys : Field(a_result[k], key) = Carried(k, key)

C11_ResetsContentType ==
    Returning =>
        \A k \in DOMAIN a_result :
            PlainUnit(k) =>
                /\ a_origin[k].count = 1
                /\ a_result[k].text = lines[a_origin[k].first + 1]
                /\ \A level \in Levels : Field(a_result[k], level) = Carried(k, level)
                /\ Field(a_result[k], "content_type") = None

\* a plain line after a chapter line: the unit carries chapter 1 and no
\* content_type, the chapter unit before it has content_type 2
C11_Witness ==
    /\ Returning
    /\ Len(a_result) = 3
    /\ Field(a_result[1], "content_type") = Some(2)
    /\ a_result[2].text = ColonPlainLine
    /\ Field(a_result[2], "chapter") = Some(1)
    /\ Field(a_result[2], "content_type") = None

(***************************************************************************)
(* C12  No hierarchical reset: the unit of a marker line of level L has    *)
(* in the three fields of the other levels the values of the unit emitted  *)
(* before it (None when it is the first), so a Part or Chapter line leaves *)
(* section and article in place, in its own unit and in those that follow. *)
(***************************************************************************)
C12_NoReset ==
    Returning =>
        \A k \in DOMAIN a_result : \A level \in Levels :
            IsMarker(level, lines[a_origin[k].first + 1]) =>
                /\ \A other \in Levels \ { level } :
                     Field(a_result[k], other) = Carried(k, other)
                /\ \A later \in DOMAIN a_result : \A other \in Levels \ { level } :
                     (k < later /\ Carried(k, other) # None)
                        => Field(a_result[later], other) # None

\* an article, then a part line: the unit of the part line and the unit
\* after it still carry the article number
C12_Witness ==
    /\ Returning
    /\ Len(a_result) = 3
    /\ Field(a_result[1], "article") = Some(2)
    /\ Field(a_result[2], "content_type") = Some(1)
    /\ Field(a_result[2], "article") = Some(2)
    /\ Field(a_result[3], "part") = Some(1)
    /\ Field(a_result[3], "article") = Some(2)

(***************************************************************************)
(* C13  Conversion failure is unreachable from the splitter: the numeral   *)
(* a marker pattern captures on the line under scan is non-empty and made  *)
(* of glyphs of the converter's table, its conversion is not None, and no  *)
(* unit of a marker line has None in the field of that line's level.       *)
(***************************************************************************)
C13_NoFailure ==
    /\ Scanning =>
         \A k \in DOMAIN all_patterns :
            LET m == RegexMatch(all_patterns[k], lines[i + 1]) IN
            m.matched =>
                /\ m.group # << >>
                /\ \A j \in DOMAIN m.group : m.group[j] \in C6_Glyphs
                /\ convert_chinese_to_number(m.group) # None
    /\ \A level \in Levels : \A k \in DOMAIN a_result :
         IsMarker(level, lines[a_origin[k].first + 1]) => Field(a_result[k], level) # None

\* the article line with the two-glyph numeral shi er has been scanned
C13_Witness ==
    /\ article = Some(12)
    /\ \E k \in DOMAIN a_result :
         /\ lines[a_origin[k].first + 1] = ColonArticleLine
         /\ Field(a_result[k], "article") = Some(12)

(***************************************************************************)
(* C14  Well-formed numerals up to the hundred-millions range: a numeral   *)
(* converts to the integer it denotes; that is so for the standard         *)
(* numerals of 1 .. MaxStandard and for a group of 1 .. 99 followed by wan *)
(* or of 1 .. 19 followed by yi4, which denotes the group's value times    *)
(* 10000 or 100000000, also when the group ends in shi.                    *)
(***************************************************************************)
\* the numerals group-wan and group-yi4 with the integers they denote
C14_Grouped ==
    { << Standard(g, elide) \o << "wan" >>, g * 10000 >> :
        g \in 1 .. 99, elide \in BOOLEAN }
    \cup { << Standard(g, elide) \o << "yi4" >>, g * 100000000 >> :
             g \in 1 .. 19, elide \in BOOLEAN }

C14_WellFormedConverts ==
    cpc = "returned" =>
        /\ cs \in C5_Numerals => (cret # None /\ << cs, cret[1] >> \in C5_Standard)
        /\ \A p \in C14_Grouped : cs = p[1] => cret = Some(p[2])

(***************************************************************************)
(* C15  is_chinese_number(s) is true if and only if s is non-empty and     *)
(* every character of s is one of the 15 glyphs; it is false for the empty *)
(* string.                                                                 *)
(***************************************************************************)
C15_FalseOnEmpty ==
    cpc = "returned" =>
        (cret[1] <=> (cs # << >> /\ \A k \in DOMAIN cs : cs[k] \in C6_Glyphs))

(***************************************************************************)
(* C16  Permissive conversion: for every non-empty string over the 15      *)
(* glyphs, well-formed or not, convert_chinese_to_number returns a         *)
(* non-negative integer; shi shi is accepted.                              *)
(***************************************************************************)
C16_Permissive ==
    (/\ cpc = "returned"
     /\ cs # << >>
     /\ \A k \in DOMAIN cs : cs[k] \in C6_Glyphs)
        => /\ cret # None
           /\ cret[1] \in Nat

\* shi shi is converted, to 20
C16_Witness ==
    /\ cpc = "returned"
    /\ cs = << "shi", "shi" >>
    /\ cret = Some(20)

(***************************************************************************)
(* C17  read_with_article_pattern terminates and examines each line a      *)
(* bounded number of times.  Every step of the scan lowers a rank that is  *)
(* never negative, so the scan ends after at most 2 * len(lines) + 1       *)
(* steps; the index i never moves backwards and is larger at the end of    *)
(* an iteration of the outer loop than at its start; each line is examined *)
(* at most once as look-ahead (by line 84, or by the test of line 92 that  *)
(* ends a continuation) and at most once as consumption (as the line of    *)
(* the outer loop, or tested and appended by the continuation loop), so    *)
(* there are at most 2 * len(lines) examinations.                          *)
(***************************************************************************)
InScan == pc \in { "scan", "consume", "consumed" }

\* the number of steps the scan can still take is at most Rank
Rank ==
    IF pc = "scan" THEN 2 * (Len(lines) - i)
    ELSE 2 * (Len(lines) - temp_index) + 1

LookAhead == { "has_more", "loop_stop" }
Consumption == { "current", "loop_take" }

\* the number of examinations of lines[idx] of the kinds
Examinations(idx, kinds) ==
    Cardinality({ k \in DOMAIN visits : visits[k].line = idx /\ visits[k].at \in kinds })

C17_Visits ==
    /\ InScan => (i \in 0 .. Len(lines) /\ Rank >= 0)
    /\ \A idx \in 0 .. Len(lines) - 1 :
         /\ Examinations(idx, LookAhead) <= 1
         /\ Examinations(idx, Consumption) <= 1
    /\ \A k \in DOMAIN visits : visits[k].line \in 0 .. Len(lines) - 1
    /\ Len(visits) <= 2 * Len(lines)
    /\ Returning => \A idx \in 0 .. Len(lines) - 1 : Examinations(idx, Consumption) = 1

C17_Step ==
    InScan =>
        /\ i' >= i
        /\ pc' = "scan" => i' > i
        /\ pc' \in { "consume", "consumed" } => Rank' < Rank
        /\ pc' = "scan" => Rank' < Rank

C17_Terminates == [](C17_Visits) /\ [][C17_Step]_vars

\* an article with two continuation lines has been scanned to the end: the
\* first continuation line was examined by line 84 and by the loop, the
\* second by the loop only
C17_Witness ==
    /\ Returning
    /\ Len(lines) = 3
    /\ Len(a_result) = 1
    /\ visits = << Visit(0, "current"), Visit(1, "has_more"), Visit(1, "loop_take"),
                   Visit(2, "loop_take") >>

(***************************************************************************)
(* C18  Order independence of detection: has_article_pattern gives on      *)
(* every permutation of the lines of a Document's text the boolean it gave *)
(* on the text itself, by which the Document was split.                    *)
(***************************************************************************)
LineOrders(size) ==
    { f \in [ 1 .. size -> 1 .. size ] : \A a, b \in 1 .. size : f[a] = f[b] => a = b }

\* the text with its lines in the order f
Permuted(text, f) ==
    LET ls == splitlines(text) IN join(<< "LF" >>, [ k \in DOMAIN ls |-> ls[f[k]] ])

\* node d was split by read_with_article_pattern
SplitWithArticles(d) ==
    \E k \in DOMAIN result : origin[k].doc = d /\ result[k].metadata # NoInfo

C18_OrderIndependent ==
    AtLoopHead => \A d \in 1 .. n :
        _nodes[d].is_document =>
            \A f \in LineOrders(Len(splitlines(_nodes[d].text))) :
                has_article_pattern(Permuted(_nodes[d].text, f)) <=> SplitWithArticles(d)

\* a Document whose Article line stands last was split by
\* read_with_article_pattern, as it is with that line first
C18_Witness ==
    /\ pc = "done"
    /\ _nodes[1].text = ColonPlainLine \o << "LF" >> \o BlankLine \o << "LF" >> \o ArticleLine
    /\ SplitWithArticles(1)
    /\ Permuted(_nodes[1].text, << 3, 2, 1 >>)
         = ArticleLine \o << "LF" >> \o BlankLine \o << "LF" >> \o ColonPlainLine

(***************************************************************************)
(* C19  Line coverage of read_with_article_pattern: the texts of the       *)
(* units, read in output order and line by line, are the trimmed non-blank *)
(* lines of the document that are not blank once their zero-width          *)
(* characters are removed, each once and in document order.                *)
(***************************************************************************)
RECURSIVE Flatten(_)
\* the concatenation of a sequence of sequences
Flatten(seqs) == IF seqs = << >> THEN << >> ELSE Head(seqs) \o Flatten(Tail(seqs))

\* the lines of the texts of the units, in output order
UnitLines(units) == Flatten([ k \in DOMAIN units |-> TrimmedLines(units[k].text) ])

NotEffectivelyBlank(l) == ~EffectivelyBlank(l)

C19_Coverage ==
    Returning =>
        UnitLines(a_result) = SelectSeq(TrimmedLines(_nodes[n + 1].text), NotEffectivelyBlank)

(***************************************************************************)
(* C20  Every marker line starts its own unit in                           *)
(* read_with_article_pattern: no line of a unit after its first is a       *)
(* marker line, every marker line is the first line of a unit, there are   *)
(* as many units of content_type 4 as Article marker lines, and a Document *)
(* split by read_with_article_pattern gives at least one such unit.        *)
(***************************************************************************)
ArticleUnits(units) == { k \in DOMAIN units : Field(units[k], "content_type") = Some(4) }

C20_MarkersStartUnits ==
    /\ Returning =>
         /\ \A k \in DOMAIN a_result :
              \A j \in a_origin[k].first + 2 .. a_origin[k].first + a_origin[k].count :
                 ~IsAnyMarker(lines[j])
         /\ \A j \in DOMAIN lines :
              IsAnyMarker(lines[j]) => \E k \in DOMAIN a_result : a_origin[k].first + 1 = j
         /\ Cardinality(ArticleUnits(a_result))
              = Cardinality({ j \in DOMAIN lines : IsMarker("article", lines[j]) })
         /\ ArticleUnits(a_result) # { }
    /\ AtLoopHead => \A d \in 1 .. n :
         (_nodes[d].is_document /\ HasArticleLine(_nodes[d].text)) =>
            \E k \in ArticleUnits(result) : origin[k].doc = d

\* an Article line that ends in a colon and is followed by an Article line:
\* two units of content_type 4
C20_Witness ==
    /\ Returning
    /\ lines = << ColonArticleLine, ArticleLine >>
    /\ ArticleUnits(a_result) = { 1, 2 }
    /\ a_result[1].text = ColonArticleLine

(***************************************************************************)
(* C21  Marker classification is unambiguous: at most one of the Part,     *)
(* Chapter, Section and Article patterns matches a line, and the           *)
(* _content_type the chain gives is the same for every order in which the  *)
(* four patterns are tested.                                               *)
(***************************************************************************)
C21_Unambiguous ==
    cpc = "returned" =>
        /\ Cardinality({ k \in DOMAIN all_patterns :
                           RegexMatch(all_patterns[k], cs).matched }) <= 1
        /\ \A order \in LineOrders(4) : Classify(cs, order) = cret

\* an Article line with a leading space is classified as such
C21_Witness ==
    /\ cpc = "returned"
    /\ cs = << " ", "di", "shi", "tiao" >>
    /\ cret = Some(4)

(***************************************************************************)
(* C22  An Article line immediately followed by a marker line of any level *)
(* is emitted as a unit whose text is that line alone, whether or not it   *)
(* ends with a colon, and the marker line after it starts the next unit.   *)
(***************************************************************************)
C22_ArticleBeforeMarker ==
    Returning =>
        \A k \in DOMAIN a_result :
            LET f == a_origin[k].first + 1 IN
            (/\ IsMarker("article", lines[f])
             /\ f < Len(lines)
             /\ IsAnyMarker(lines[f + 1]))
                => /\ a_result[k].text = lines[f]
                   /\ a_origin[k].count = 1
                   /\ k < Len(a_result)
                   /\ a_origin[k + 1].first + 1 = f + 1
                   /\ TrimmedLines(a_result[k + 1].text)[1] = lines[f + 1]

\* an Article line that ends with a colon, then a Chapter line
C22_Witness ==
    /\ Returning
    /\ lines = << ColonArticleLine, ChapterLine >>
    /\ Len(a_result) = 2
    /\ a_result[1].text = ColonArticleLine
    /\ a_result[2].text = ChapterLine
    /\ Field(a_result[2], "content_type") = Some(2)

(***************************************************************************)
(* C23  In the output of read_with_article_pattern the unit after a unit   *)
(* of content_type 4 of the same Document has a content_type: a unit       *)
(* without content_type is the first unit or follows a unit of             *)
(* content_type 1, 2, 3 or none.                                           *)
(***************************************************************************)
C23_MarkerAfterArticle ==
    /\ Returning =>
         \A k \in DOMAIN a_result :
            /\ (k > 1 /\ Field(a_result[k - 1], "content_type") = Some(4))
                  => Field(a_result[k], "content_type") # None
            /\ Field(a_result[k], "content_type") = None
                  => \/ k = 1
                     \/ Field(a_result[k - 1], "content_type") \in { Some(1), Some(2), Some(3), None }
    /\ AtLoopHead =>
         \A k \in DOMAIN result :
            (/\ k > 1
             /\ origin[k - 1].doc = origin[k].doc
             /\ Field(result[k - 1], "content_type") = Some(4))
                => Field(result[k], "content_type") # None

\* an article with a continuation line, then a Section line: the unit after
\* the article unit is the section unit
C23_Witness ==
    /\ Returning
    /\ Len(a_result) = 2
    /\ a_origin[1].count = 2
    /\ Field(a_result[1], "content_type") = Some(4)
    /\ Field(a_result[2], "content_type") = Some(3)

(***************************************************************************)
(* C24  Additivity of conversion: if a non-empty glyph string is cut into  *)
(* two non-empty parts s and t, and it is not so that s ends with a digit  *)
(* glyph while t starts with a unit glyph, then the string converts to the *)
(* sum of what s and t convert to.                                         *)
(***************************************************************************)
C24_Digits == { "ling", "yi1", "er", "san", "si", "wu", "liu", "qi", "ba", "jiu" }
C24_Units == { "shi", "bai", "qian", "wan", "yi4" }

C24_Additive ==
    (cpc = "returned" /\ \A k \in DOMAIN cs : cs[k] \in C6_Glyphs) =>
        \A cut \in 1 .. Len(cs) - 1 :
            LET s == SubSeq(cs, 1, cut)
                t == SubSeq(cs, cut + 1, Len(cs)) IN
            ~(s[Len(s)] \in C24_Digits /\ t[1] \in C24_Units) =>
                cret = Some(convert_chinese_to_number(s)[1]
                            + convert_chinese_to_number(t)[1])

\* er shi san is 20 + 3
C24_Witness ==
    /\ cpc = "returned"
    /\ cs = << "er", "shi", "san" >>
    /\ cret = Some(23)
    /\ convert_chinese_to_number(<< "er", "shi" >>) = Some(20)
    /\ convert_chinese_to_number(<< "san" >>) = Some(3)

(***************************************************************************)
(* C25  No digit-unit product is counted twice: a unit glyph at an index   *)
(* above 0 that is processed without being skipped follows a unit glyph,   *)
(* the branch that adds prev * current is never taken, and a digit         *)
(* directly followed by a unit is counted once, by the look-ahead step     *)
(* that makes the loop skip the unit.                                      *)
(***************************************************************************)
C25_NoDoubleCount ==
    /\ \A k \in DOMAIN cbranches :
         /\ cbranches[k] # "unit_after_digit"
         /\ (k > 1 /\ cs[k] \in C24_Units /\ cbranches[k] # "skip") => cs[k - 1] \in C24_Units
         /\ (k > 1 /\ cs[k - 1] \in C24_Digits /\ cs[k] \in C24_Units)
               => (cbranches[k - 1] = "digit_times_unit" /\ cbranches[k] = "skip")
    /\ Len(cbranches) <= Len(cs)

\* san bai: the digit takes the unit, the unit is skipped
C25_Witness ==
    /\ cpc = "returned"
    /\ cs = << "san", "bai" >>
    /\ cbranches = << "digit_times_unit", "skip" >>
    /\ cret = Some(300)

(***************************************************************************)
(* C26  Consecutive unit glyphs take the current unit: bai yi4 converts to *)
(* 100000000.                                                              *)
(***************************************************************************)
C26_BaiYi ==
    (cpc = "returned" /\ cs = << "bai", "yi4" >>) => cret = Some(100000000)

(***************************************************************************)
(* C27  Query pipeline order: with pre-processing enabled the retrieval    *)
(* service receives an output of the pre-processing chain (sensitive-word  *)
(* removal, then question optimisation) applied to the user's query; with  *)
(* post-processing enabled the returned results are the retrieval results  *)
(* after the post-processor chain has been applied to them.                *)
(***************************************************************************)
C27_PipelineOrder ==
    /\ (qpc \in { "post", "returned" } /\ enable_pre_processing)
          => /\ pre_error = ""
             /\ sent_query \in PreQueryProcessorChain_run(query_text)
    /\ (qpc = "returned" /\ enable_post_processing)
          => /\ post_error = ""
             /\ results \in Reranked(retrieved)

(***************************************************************************)
(* C28  Processing failures do not abort a query: when the pre-processing  *)
(* step raises, retrieval comes next and receives the original query text; *)
(* when the post-processing step raises, the retrieval results are         *)
(* returned unchanged; no exception of either step leaves _query.          *)
(***************************************************************************)
C28_FailuresContained ==
    /\ qpc \notin { "raised_pre", "raised_post" }
    /\ pre_error # ""
          => /\ qpc \in { "retrieve", "post", "returned", "raised" }
             /\ processed_query = query_text
             /\ qpc # "retrieve" => sent_query = query_text
    /\ post_error # "" => (qpc = "returned" /\ results = retrieved)

\* min gan ci with both steps enabled: both steps raise, the query reaches
\* retrieval as it was typed and the two nodes retrieved are returned
C28_Witness ==
    /\ qpc = "returned"
    /\ query_text = << "min", "gan", "ci" >>
    /\ pre_error = "AttributeError"
    /\ post_error = "AttributeError"
    /\ sent_query = << "min", "gan", "ci" >>
    /\ retrieved = << 2, 1 >>
    /\ results = << 2, 1 >>

(***************************************************************************)
(* C29  Sensitive-word removal is complete: what SensitiveWordProcessor    *)
(* returns holds neither fei fa ci nor min gan ci as a substring, and the  *)
(* processor run on its own output returns that output.                    *)
(***************************************************************************)
C29_Substring(sub, s) ==
    \E k \in 1 .. Len(s) - Len(sub) + 1 : SubSeq(s, k, k + Len(sub) - 1) = sub

C29_Complete ==
    qpc = "replaced"
       => /\ \A k \in DOMAIN sensitive_words : ~ C29_Substring(sensitive_words[k], query)
          /\ SensitiveWordProcessor_run(query) = query

(***************************************************************************)
(* C30  Retrieval-mode routing: determine_mode returns, lower-cased, the   *)
(* value of the first of mode, search_mode, query_mode that holds one of   *)
(* the five valid modes whatever its case; when none does, because the     *)
(* parameters are absent or hold other values, it returns the configured   *)
(* default mode.                                                           *)
(***************************************************************************)
C30_SameIgnoringCase(s, t) ==
    /\ Len(s) = Len(t)
    /\ \A k \in 1 .. Len(s) : lower_char(s[k]) = lower_char(t[k])

C30_HoldsMode(name, m) ==
    /\ name \in DOMAIN params
    /\ params[name].type = "str"
    /\ C30_SameIgnoringCase(params[name].str, m)

C30_HoldsValid(name) == \E k \in DOMAIN valid_modes : C30_HoldsMode(name, valid_modes[k])

C30_Expected ==
    IF \E k \in DOMAIN param_names : C30_HoldsValid(param_names[k])
    THEN LET first == CHOOSE k \in DOMAIN param_names :
                         /\ C30_HoldsValid(param_names[k])
                         /\ \A j \in 1 .. k - 1 : ~ C30_HoldsValid(param_names[j])
         IN  CHOOSE m \in Range(valid_modes) : C30_HoldsMode(param_names[first], m)
    ELSE default_mode

C30_Routing ==
    /\ qpc # "mode_raised"
    /\ qpc = "mode_returned" => mode_ret = C30_Expected

====
